---- MODULE Spec2Model ----
(***************************************************************************)
(* CoinChrono (src/coin_chrono.py): value-weighted average holding age of  *)
(* the incoming ETH and ERC-20 transfers of one address.                   *)
(*                                                                         *)
(* Text fields of the explorer's JSON (to, value, timeStamp, tokenDecimal, *)
(* the address argument) are sequences of one-character strings, so that   *)
(* str.lower() and int() are computed character by character.              *)
(* A Python float is a rational scaled by a power of ten: [n, d, e] stands  *)
(* for (n / d) * 10^(-e).  precision is the width of the float mantissa:   *)
(* every float operation rounds its exact result to the nearest float of   *)
(* that many bits, ties to even.  Python's floats have 53 bits, more than  *)
(* the integers used here can hold, so a specification either takes        *)
(* precision = 0, which stands for arithmetic without rounding, or a       *)
(* narrow mantissa of MantissaBits bits.                                   *)
(***************************************************************************)
EXTENDS Integers, Sequences, FiniteSets, TLC

VARIABLES pc, clock, ticks, address, eth_txs, eth_in, eth_age, token_txs, i,
          by_token, rows, j, printed, group, first, second, precision

vars == <<pc, clock, ticks, address, eth_txs, eth_in, eth_age, token_txs, i,
          by_token, rows, j, printed, group, first, second, precision>>

(***************************************************************************)
(* Bounds of the model.                                                    *)
(***************************************************************************)
MaxEthTxs == 1
MaxTokenTxs == 3
MaxGroupLen == 2
MaxFloatGroupLen == 3
MantissaBits == 4
MaxTicks == 1
StartClock == 4

(***************************************************************************)
(* Program constants.                                                      *)
(***************************************************************************)
SecondsPerDay == 86400
DefaultDecimals == 18
WeiDecimals == 18

(***************************************************************************)
(* Integer helpers.                                                        *)
(***************************************************************************)
Abs(x) == IF x < 0 THEN -x ELSE x

RECURSIVE Euclid(_, _)
Euclid(a, b) == IF b = 0 THEN a ELSE Euclid(b, a % b)

GCD(a, b) == Euclid(Abs(a), Abs(b))

LCM(a, b) == (a \div GCD(a, b)) * b

RECURSIVE Pow10(_)
Pow10(k) == IF k = 0 THEN 1 ELSE 10 * Pow10(k - 1)

RECURSIVE Pow2(_)
Pow2(k) == IF k = 0 THEN 1 ELSE 2 * Pow2(k - 1)

Max(a, b) == IF a >= b THEN a ELSE b

(***************************************************************************)
(* str.lower() on the characters the addresses are written with.           *)
(***************************************************************************)
UpperToLower == [c \in {"A", "B", "C", "D"} |->
                   CASE c = "A" -> "a" [] c = "B" -> "b"
                     [] c = "C" -> "c" [] c = "D" -> "d"]

LowerChar(c) == IF c \in DOMAIN UpperToLower THEN UpperToLower[c] ELSE c

IdentityLower(s) == s

Lower(s) == [k \in 1..Len(s) |-> LowerChar(s[k])]

(***************************************************************************)
(* int(text): an optional minus sign and at least one decimal digit;       *)
(* anything else raises ValueError (ok = FALSE).                           *)
(***************************************************************************)
DigitValue == [c \in {"0", "1", "2", "3", "4", "5", "6", "7", "8", "9"} |->
                 CASE c = "0" -> 0 [] c = "1" -> 1 [] c = "2" -> 2
                   [] c = "3" -> 3 [] c = "4" -> 4 [] c = "5" -> 5
                   [] c = "6" -> 6 [] c = "7" -> 7 [] c = "8" -> 8
                   [] c = "9" -> 9]

RECURSIVE DigitsValue(_)
DigitsValue(s) ==
    IF s = <<>> THEN 0
    ELSE 10 * DigitsValue(SubSeq(s, 1, Len(s) - 1)) + DigitValue[s[Len(s)]]

AllDigits(s) == s # <<>> /\ \A k \in 1..Len(s) : s[k] \in DOMAIN DigitValue

ParseInt(s) ==
    IF AllDigits(s) THEN [ok |-> TRUE, val |-> DigitsValue(s)]
    ELSE IF s # <<>> /\ s[1] = "-" /\ AllDigits(Tail(s))
         THEN [ok |-> TRUE, val |-> -DigitsValue(Tail(s))]
         ELSE [ok |-> FALSE, val |-> 0]

(***************************************************************************)
(* Exact arithmetic standing for the float operations of compute_age.      *)
(* [n, d, e] is (n / d) * 10^(-e), with d > 0 and gcd(n, d) = 1.           *)
(***************************************************************************)
Norm(n, d, e) ==
    LET g == GCD(n, d)
        s == IF d < 0 THEN -1 ELSE 1
    IN  [n |-> s * (n \div g), d |-> s * (d \div g), e |-> e]

Zero == [n |-> 0, d |-> 1, e |-> 0]

\* a / b scaled by a power of two 2^x so that the quotient has exactly
\* precision bits before the binary point: <<a', b', x>>, a / b = (a' / b') * 2^x.
RECURSIVE Scale(_, _, _)
Scale(a, b, x) ==
    IF a < Pow2(precision - 1) * b THEN Scale(2 * a, b, x - 1)
    ELSE IF a >= Pow2(precision) * b THEN Scale(a, 2 * b, x + 1)
    ELSE <<a, b, x>>

\* The float nearest to q, ties to the even mantissa.
Nearest(q) ==
    LET sc == Scale(Abs(q.n), q.d * Pow10(q.e), 0)
        m == sc[1] \div sc[2]
        r == sc[1] % sc[2]
        up == 2 * r > sc[2] \/ (2 * r = sc[2] /\ m % 2 = 1)
        mant == IF up THEN m + 1 ELSE m
        sign == IF q.n < 0 THEN -1 ELSE 1
    IN  IF sc[3] >= 0 THEN Norm(sign * mant * Pow2(sc[3]), 1, 0)
        ELSE Norm(sign * mant, Pow2(-sc[3]), 0)

\* The result of a float operation whose exact result is q.
Round(q) == IF precision = 0 \/ q.n = 0 THEN q ELSE Nearest(q)

NumAdd(a, b) ==
    LET e == Max(a.e, b.e)
        an == a.n * Pow10(e - a.e)
        bn == b.n * Pow10(e - b.e)
        l == LCM(a.d, b.d)
    IN  IF a.n = 0 THEN b
        ELSE IF b.n = 0 THEN a
        ELSE Round(Norm(an * (l \div a.d) + bn * (l \div b.d), l, e))

NumMul(a, b) ==
    LET g1 == GCD(a.n, b.d)
        g2 == GCD(b.n, a.d)
    IN  IF a.n = 0 \/ b.n = 0 THEN [n |-> 0, d |-> 1, e |-> a.e + b.e]
        ELSE Round(Norm((a.n \div g1) * (b.n \div g2),
                        (a.d \div g2) * (b.d \div g1), a.e + b.e))

\* a / b for b # 0, as a plain rational <<n, d>> in lowest terms, d > 0.
NumDiv(a, b) ==
    LET up == IF b.e > a.e THEN Pow10(b.e - a.e) ELSE 1
        dn == IF a.e > b.e THEN Pow10(a.e - b.e) ELSE 1
        q == Round(Norm(a.n * b.d * up, a.d * b.n * dn, 0))
    IN  <<q.n, q.d>>

NumIsZero(a) == a.n = 0

(***************************************************************************)
(* compute_age (lines 53-69).  now is the reading of the system clock      *)
(* taken at line 58.  The result is [raised, value]: raised when int()     *)
(* raises ValueError on a field, otherwise value is the returned float.    *)
(***************************************************************************)
AgeSeconds(now, ts) == Norm(now - ts, 1, 0)

AgeDays(now, ts) == Round(Norm(now - ts, SecondsPerDay, 0))

DecimalText(ev) ==
    IF "tokenDecimal" \in DOMAIN ev THEN ParseInt(ev.tokenDecimal)
    ELSE [ok |-> TRUE, val |-> DefaultDecimals]

Amount(ev) == Round(Norm(ParseInt(ev.value).val, 1, DecimalText(ev).val))

EventRaises(ev) ==
    \/ ~ParseInt(ev.timeStamp).ok
    \/ ~ParseInt(ev.value).ok
    \/ ~DecimalText(ev).ok

\* One iteration of the loop of lines 61-66.
Step(acc, ev, now) ==
    IF acc.raised \/ EventRaises(ev)
    THEN [raised |-> TRUE, total_amount |-> acc.total_amount,
          total_age |-> acc.total_age]
    ELSE [raised |-> FALSE,
          total_amount |-> NumAdd(acc.total_amount, Amount(ev)),
          total_age |-> NumAdd(acc.total_age,
                               NumMul(Amount(ev),
                                      AgeDays(now, ParseInt(ev.timeStamp).val)))]

RECURSIVE Loop(_, _, _)
Loop(events, k, now) ==
    IF k = 0
    THEN [raised |-> FALSE, total_amount |-> Zero, total_age |-> Zero]
    ELSE Step(Loop(events, k - 1, now), events[k], now)

compute_age(events, now) ==
    LET acc == Loop(events, Len(events), now)
    IN  IF acc.raised THEN [raised |-> TRUE, value |-> <<0, 1>>]
        ELSE IF NumIsZero(acc.total_amount)
             THEN [raised |-> FALSE, value |-> <<0, 1>>]
             ELSE [raised |-> FALSE,
                   value |-> NumDiv(acc.total_age, acc.total_amount)]

(***************************************************************************)
(* Inputs: the address argument and the record lists the explorer returns. *)
(***************************************************************************)
Addresses == {<<"x", "A", "b">>}

\* A recipient that is the address in another letter case, and a stranger.
Mine == <<"x", "a", "B">>

Other == <<"x", "c", "d">>

EthTx(to, value) == [to |-> to, value |-> value, timeStamp |-> <<"1">>]

\* The value text "z" is not a number.
EthRecords == {EthTx(Mine, <<"3">>), EthTx(Other, <<"3">>), EthTx(Mine, <<"z">>)}

TokenTx(to, contract, symbol, decimals, value) ==
    [to |-> to, value |-> value, timeStamp |-> <<"1">>,
     contractAddress |-> contract, tokenSymbol |-> symbol,
     tokenDecimal |-> decimals]

\* Contract c1 is reported with two different decimals.
TokenRecords ==
    {TokenTx(Mine, "c1", "T", <<"0">>, <<"2">>),
     TokenTx(Mine, "c1", "T", <<"0">>, <<"5">>),
     TokenTx(Other, "c1", "T", <<"0">>, <<"2">>),
     TokenTx(Mine, "c1", "T", <<"1">>, <<"2">>),
     TokenTx(Mine, "c2", "U", <<"0">>, <<"2">>),
     TokenTx(Mine, "c2", "U", <<"0">>, <<"z">>)}

SeqsUpTo(S, n) == UNION {[1..m -> S] : m \in 0..n}

None == [made |-> FALSE]

(***************************************************************************)
(* main (lines 71-107).                                                    *)
(***************************************************************************)
\* The comparison of lines 86 and 94.
IsIncoming(tx, addr) == Lower(tx.to) = Lower(addr)

RECURSIVE Incoming(_, _)
Incoming(txs, addr) ==
    IF txs = <<>> THEN <<>>
    ELSE LET rest == Incoming(SubSeq(txs, 1, Len(txs) - 1), addr)
             tx == txs[Len(txs)]
         IN  IF IsIncoming(tx, addr) THEN Append(rest, tx) ELSE rest

KeyWithoutDecimals(tx) == <<tx.contractAddress, tx.tokenSymbol, <<>>>>

\* Line 96.
KeyOf(tx) == <<tx.contractAddress, tx.tokenSymbol, tx.tokenDecimal>>

HasKey(bt, key) == \E k \in 1..Len(bt) : bt[k].key = key

SetDefaultPrepend(bt, key, tx) ==
    IF HasKey(bt, key)
    THEN [k \in 1..Len(bt) |->
            IF bt[k].key = key
            THEN [key |-> key, evs |-> <<tx>> \o bt[k].evs]
            ELSE bt[k]]
    ELSE Append(bt, [key |-> key, evs |-> <<tx>>])

SetDefaultFront(bt, key, tx) ==
    IF HasKey(bt, key)
    THEN [k \in 1..Len(bt) |->
            IF bt[k].key = key
            THEN [key |-> key, evs |-> Append(bt[k].evs, tx)]
            ELSE bt[k]]
    ELSE <<[key |-> key, evs |-> <<tx>>]>> \o bt

\* Line 97: by_token.setdefault(key, []).append(tx).  The dict keeps its
\* keys in insertion order, so by_token is a sequence of [key, evs].
SetDefaultAppend(bt, key, tx) ==
    IF HasKey(bt, key)
    THEN [k \in 1..Len(bt) |->
            IF bt[k].key = key
            THEN [key |-> key, evs |-> Append(bt[k].evs, tx)]
            ELSE bt[k]]
    ELSE Append(bt, [key |-> key, evs |-> <<tx>>])

\* One iteration of the loop of lines 93-97.
GroupOne(bt, tx, addr) ==
    IF IsIncoming(tx, addr) THEN SetDefaultAppend(bt, KeyOf(tx), tx) ELSE bt

\* The loop of lines 92-97 over the first k records of txs.
RECURSIVE GroupTokens(_, _, _)
GroupTokens(txs, k, addr) ==
    IF k = 0 THEN <<>>
    ELSE GroupOne(GroupTokens(txs, k - 1, addr), txs[k], addr)

RECURSIVE SumValues(_)
SumValues(evs) ==
    IF evs = <<>> THEN 0
    ELSE SumValues(Tail(evs)) + ParseInt(Head(evs).value).val

\* sum(int(tx['value']) for tx in evs) / (10**dec), lines 100 and 104.
Balance(evs, dec) == Round(Norm(SumValues(evs), 1, dec))

Header == <<"Asset", "Balance", "Average Hold (days)">>

\* The rows carry the numbers that lines 100 and 105 render as text.
EthRow(evs, age) == <<"ETH", Balance(evs, WeiDecimals), age>>

TokenRow(item, age) ==
    <<item.key[2], Balance(item.evs, ParseInt(item.key[3]).val), age>>

Terminal == {"exit", "raised", "done"}

Init ==
    /\ pc = "start"
    /\ clock = StartClock
    /\ ticks = 0
    /\ address \in Addresses
    /\ eth_txs = <<>>
    /\ eth_in = <<>>
    /\ eth_age = <<0, 1>>
    /\ token_txs = <<>>
    /\ i = 0
    /\ by_token = <<>>
    /\ rows = <<>>
    /\ j = 0
    /\ printed = <<>>
    /\ group = <<>>
    /\ first = None
    /\ second = None
    /\ precision = 0

\* The system clock advances between any two steps of the program.
Tick ==
    /\ pc \notin Terminal
    /\ ticks < MaxTicks
    /\ clock' = clock + 1
    /\ ticks' = ticks + 1
    /\ UNCHANGED <<pc, address, eth_txs, eth_in, eth_age, token_txs, i,
                   by_token, rows, j, printed, group, first, second,
                   precision>>

\* Lines 76-79: no API key, exit(1).
NoApiKey ==
    /\ pc = "start"
    /\ pc' = "exit"
    /\ UNCHANGED <<clock, ticks, address, eth_txs, eth_in, eth_age, token_txs,
                   i, by_token, rows, j, printed, group, first, second,
                   precision>>

\* Lines 84, 28-32: the explorer answers with a status other than "1".
FetchEthFail ==
    /\ pc = "start"
    /\ pc' = "exit"
    /\ eth_txs' = <<>>
    /\ UNCHANGED <<clock, ticks, address, eth_in, eth_age, token_txs, i,
                   by_token, rows, j, printed, group, first, second,
                   precision>>

\* Lines 84-86: the ETH transactions, and those sent to the address.
FetchEth ==
    /\ pc = "start"
    /\ \E txs \in SeqsUpTo(EthRecords, MaxEthTxs) :
          /\ eth_txs' = txs
          /\ eth_in' = Incoming(txs, address)
    /\ pc' = "eth_age"
    /\ UNCHANGED <<clock, ticks, address, eth_age, token_txs, i, by_token,
                   rows, j, printed, group, first, second,
                   precision>>

\* Line 87, compute_age returns.
EthAge ==
    /\ pc = "eth_age"
    /\ ~compute_age(eth_in, clock).raised
    /\ eth_age' = compute_age(eth_in, clock).value
    /\ pc' = "fetch_tokens"
    /\ UNCHANGED <<clock, ticks, address, eth_txs, eth_in, token_txs, i,
                   by_token, rows, j, printed, group, first, second,
                   precision>>

\* Line 87, compute_age raises: nothing in main catches the exception.
EthAgeRaises ==
    /\ pc = "eth_age"
    /\ compute_age(eth_in, clock).raised
    /\ pc' = "raised"
    /\ UNCHANGED <<clock, ticks, address, eth_txs, eth_in, eth_age, token_txs,
                   i, by_token, rows, j, printed, group, first, second,
                   precision>>

\* Lines 90, 46-50: the explorer answers with a status other than "1".
FetchTokensFail ==
    /\ pc = "fetch_tokens"
    /\ pc' = "exit"
    /\ UNCHANGED <<clock, ticks, address, eth_txs, eth_in, eth_age, token_txs,
                   i, by_token, rows, j, printed, group, first, second,
                   precision>>

\* Lines 90-92.
FetchTokens ==
    /\ pc = "fetch_tokens"
    /\ token_txs' \in SeqsUpTo(TokenRecords, MaxTokenTxs)
    /\ by_token' = <<>>
    /\ i' = 1
    /\ pc' = "group"
    /\ UNCHANGED <<clock, ticks, address, eth_txs, eth_in, eth_age, rows, j,
                   printed, group, first, second,
                   precision>>

\* Lines 93-97, one iteration.
GroupStep ==
    /\ pc = "group"
    /\ i <= Len(token_txs)
    /\ by_token' = GroupOne(by_token, token_txs[i], address)
    /\ i' = i + 1
    /\ UNCHANGED <<pc, clock, ticks, address, eth_txs, eth_in, eth_age,
                   token_txs, rows, j, printed, group, first, second,
                   precision>>

\* Lines 99-100.
StartRows ==
    /\ pc = "group"
    /\ i > Len(token_txs)
    /\ rows' = <<Header, EthRow(eth_in, eth_age)>>
    /\ j' = 1
    /\ pc' = "rows"
    /\ UNCHANGED <<clock, ticks, address, eth_txs, eth_in, eth_age, token_txs,
                   i, by_token, printed, group, first, second,
                   precision>>

\* Lines 102-105, one iteration, compute_age returns.
RowStep ==
    /\ pc = "rows"
    /\ j <= Len(by_token)
    /\ ~compute_age(by_token[j].evs, clock).raised
    /\ rows' = Append(rows, TokenRow(by_token[j],
                                     compute_age(by_token[j].evs, clock).value))
    /\ j' = j + 1
    /\ UNCHANGED <<pc, clock, ticks, address, eth_txs, eth_in, eth_age,
                   token_txs, i, by_token, printed, group, first, second,
                   precision>>

\* Line 103, compute_age raises: nothing in main catches the exception.
RowStepRaises ==
    /\ pc = "rows"
    /\ j <= Len(by_token)
    /\ compute_age(by_token[j].evs, clock).raised
    /\ pc' = "raised"
    /\ UNCHANGED <<clock, ticks, address, eth_txs, eth_in, eth_age, token_txs,
                   i, by_token, rows, j, printed, group, first, second,
                   precision>>

\* Line 107.
PrintTable ==
    /\ pc = "rows"
    /\ j > Len(by_token)
    /\ printed' = rows
    /\ pc' = "done"
    /\ UNCHANGED <<clock, ticks, address, eth_txs, eth_in, eth_age, token_txs,
                   i, by_token, rows, j, group, first, second,
                   precision>>

Next ==
    \/ Tick
    \/ NoApiKey
    \/ FetchEthFail
    \/ FetchEth
    \/ EthAge
    \/ EthAgeRaises
    \/ FetchTokensFail
    \/ FetchTokens
    \/ GroupStep
    \/ StartRows
    \/ RowStep
    \/ RowStepRaises
    \/ PrintTable

Spec == Init /\ [][Next]_vars

(***************************************************************************)
(* compute_age called on its own: a group of events is aggregated twice,   *)
(* the second time in any order of its records, while the clock runs.      *)
(***************************************************************************)
AgeValues == {<<"0">>, <<"3">>, <<"-", "1">>, <<"z">>}

AgeStamps == {<<"0">>, <<"3">>, <<"9">>}

NativeEvents == [value : AgeValues, timeStamp : AgeStamps]

TokenEvents ==
    [value : AgeValues, timeStamp : AgeStamps, tokenDecimal : {<<"0">>, <<"1">>}]

Perms(n) ==
    {p \in [1..n -> 1..n] : \A a, b \in 1..n : a # b => p[a] # p[b]}

Call(events, now) ==
    [made |-> TRUE, events |-> events, now |-> now,
     out |-> compute_age(events, now)]

InitAge ==
    /\ pc = "age"
    /\ clock = StartClock
    /\ ticks = 0
    /\ address = <<>>
    /\ eth_txs = <<>>
    /\ eth_in = <<>>
    /\ eth_age = <<0, 1>>
    /\ token_txs = <<>>
    /\ i = 0
    /\ by_token = <<>>
    /\ rows = <<>>
    /\ j = 0
    /\ printed = <<>>
    /\ group \in SeqsUpTo(NativeEvents, MaxGroupLen)
                   \cup SeqsUpTo(TokenEvents, MaxGroupLen)
    /\ first = None
    /\ second = None
    /\ precision = 0

\* The same calls in floats of MantissaBits bits, on token events.
FloatEvents ==
    [value : {<<"1">>, <<"2">>, <<"3">>}, timeStamp : {<<"0">>, <<"3">>},
     tokenDecimal : {<<"1">>}]

InitFloat ==
    /\ pc = "age"
    /\ clock = StartClock
    /\ ticks = 0
    /\ address = <<>>
    /\ eth_txs = <<>>
    /\ eth_in = <<>>
    /\ eth_age = <<0, 1>>
    /\ token_txs = <<>>
    /\ i = 0
    /\ by_token = <<>>
    /\ rows = <<>>
    /\ j = 0
    /\ printed = <<>>
    /\ group \in SeqsUpTo(FloatEvents, MaxFloatGroupLen)
    /\ first = None
    /\ second = None
    /\ precision = MantissaBits

CallFirst ==
    /\ pc = "age"
    /\ ~first.made
    /\ first' = Call(group, clock)
    /\ UNCHANGED <<pc, clock, ticks, address, eth_txs, eth_in, eth_age,
                   token_txs, i, by_token, rows, j, printed, group, second,
                   precision>>

CallSecond ==
    /\ pc = "age"
    /\ first.made
    /\ ~second.made
    /\ \E p \in Perms(Len(group)) :
          second' = Call([k \in 1..Len(group) |-> group[p[k]]], clock)
    /\ UNCHANGED <<pc, clock, ticks, address, eth_txs, eth_in, eth_age,
                   token_txs, i, by_token, rows, j, printed, group, first,
                   precision>>

NextAge ==
    \/ Tick
    \/ CallFirst
    \/ CallSecond

SpecAge == InitAge /\ [][NextAge]_vars

SpecFloat == InitFloat /\ [][NextAge]_vars

(***************************************************************************)
(* What the properties are stated with.                                    *)
(***************************************************************************)
CasePairs == {<<"a", "A">>, <<"b", "B">>, <<"c", "C">>, <<"d", "D">>}

SameLetter(a, b) == a = b \/ <<a, b>> \in CasePairs \/ <<b, a>> \in CasePairs

EqIgnoreCase(s, t) ==
    Len(s) = Len(t) /\ \A k \in 1..Len(s) : SameLetter(s[k], t[k])

MatchesAddress(tx) == EqIgnoreCase(tx.to, address)

Retained == SelectSeq(token_txs, MatchesAddress)

Triple(tx) == <<tx.contractAddress, tx.tokenSymbol, tx.tokenDecimal>>

RetainedKeys == {Triple(Retained[k]) : k \in 1..Len(Retained)}

GroupingDone == i > Len(token_txs)

FirstPos(key) ==
    CHOOSE q \in 1..Len(Retained) :
        /\ Triple(Retained[q]) = key
        /\ \A r \in 1..(q - 1) : Triple(Retained[r]) # key

Rank(key) == Cardinality({k \in RetainedKeys : FirstPos(k) <= FirstPos(key)})

RECURSIVE Flatten(_)
Flatten(bt) == IF bt = <<>> THEN <<>> ELSE Head(bt).evs \o Flatten(Tail(bt))

WellFormed(evs) == \A k \in 1..Len(evs) : ~EventRaises(evs[k])

NumEq(a, b) ==
    LET e == Max(a.e, b.e)
    IN  a.n * b.d * Pow10(e - a.e) = b.n * a.d * Pow10(e - b.e)

\* The sums of the weighted average, over a common power of ten:
\* Weight(evs) / 10^E is the total amount, and WeightedSeconds(evs, now) /
\* (86400 * 10^E) the sum of amount * ageDays, E the largest decimals.
RECURSIVE MaxDecimals(_)
MaxDecimals(evs) ==
    IF evs = <<>> THEN 0
    ELSE Max(DecimalText(Head(evs)).val, MaxDecimals(Tail(evs)))

RECURSIVE Weight(_, _)
Weight(evs, e) ==
    IF evs = <<>> THEN 0
    ELSE ParseInt(Head(evs).value).val * Pow10(e - DecimalText(Head(evs)).val)
         + Weight(Tail(evs), e)

RECURSIVE WeightedSeconds(_, _, _)
WeightedSeconds(evs, e, now) ==
    IF evs = <<>> THEN 0
    ELSE ParseInt(Head(evs).value).val * Pow10(e - DecimalText(Head(evs)).val)
           * (now - ParseInt(Head(evs).timeStamp).val)
         + WeightedSeconds(Tail(evs), e, now)

AverageIs(c) ==
    LET e == MaxDecimals(c.events)
        w == Weight(c.events, e)
        s == WeightedSeconds(c.events, e, c.now)
    IN  /\ ~c.out.raised
        /\ w > 0 => c.out.value[1] * SecondsPerDay * w = c.out.value[2] * s
        /\ w = 0 => c.out.value = <<0, 1>>

Calls == {c \in {first, second} : c.made}

HasNegative(evs) ==
    \E k \in 1..Len(evs) :
        ParseInt(evs[k].value).ok /\ ParseInt(evs[k].value).val < 0

NotInFuture(c) ==
    \A k \in 1..Len(c.events) : ParseInt(c.events[k].timeStamp).val <= c.now

C2_NegativeAmountRaises ==
    \A c \in Calls : HasNegative(c.events) => c.out.raised

(***************************************************************************)
(* C3: when the aggregation of one group fails on a malformed record, the  *)
(* report still gets the row of every other group: once the program has    *)
(* ended after grouping, every well-formed token group has its row.        *)
(***************************************************************************)
C3_FailureIsolation ==
    pc \in {"done", "raised"} =>
        \A k \in 1..Len(by_token) :
            WellFormed(by_token[k].evs) =>
                \E m \in 3..Len(rows) :
                    /\ rows[m][1] = by_token[k].key[2]
                    /\ rows[m][2] = Balance(by_token[k].evs,
                                            ParseInt(by_token[k].key[3]).val)

(***************************************************************************)
(* C4: a record is retained if and only if its recipient equals the        *)
(* address ignoring letter case: every record of the native group and of   *)
(* every token group matches, and every matching record already read is in *)
(* a group.                                                                *)
(***************************************************************************)
C4_RetainedIffRecipient ==
    /\ \A k \in 1..Len(eth_in) : MatchesAddress(eth_in[k])
    /\ \A k \in 1..Len(eth_txs) :
          MatchesAddress(eth_txs[k]) =>
              \E m \in 1..Len(eth_in) : eth_in[m] = eth_txs[k]
    /\ \A g \in 1..Len(by_token) :
          \A k \in 1..Len(by_token[g].evs) : MatchesAddress(by_token[g].evs[k])
    /\ \A k \in 1..Len(token_txs) :
          (k < i /\ MatchesAddress(token_txs[k])) =>
              \E g \in 1..Len(by_token) :
                  \E m \in 1..Len(by_token[g].evs) :
                      by_token[g].evs[m] = token_txs[k]

C4_Witness ==
    /\ GroupingDone
    /\ \E k \in 1..Len(eth_in) : eth_in[k].to # address
    /\ Len(Retained) > 0
    /\ Len(Retained) < Len(token_txs)

(***************************************************************************)
(* C5: once the token records are grouped, the group of every key is the   *)
(* subsequence, in source order, of the retained token records carrying    *)
(* that (contractAddress, symbol, decimals); the keys are distinct and     *)
(* cover every retained record, so records of one contract with different  *)
(* decimals are in different groups.                                       *)
(***************************************************************************)
C5_GroupedByTriple ==
    GroupingDone =>
        /\ \A g \in 1..Len(by_token) :
              LET HasKeyOfGroup(tx) == Triple(tx) = by_token[g].key
              IN  by_token[g].evs = SelectSeq(Retained, HasKeyOfGroup)
        /\ \A g, h \in 1..Len(by_token) :
              g # h => by_token[g].key # by_token[h].key
        /\ {by_token[g].key : g \in 1..Len(by_token)} = RetainedKeys
        /\ \A g \in 1..Len(by_token) :
              \A a, b \in 1..Len(by_token[g].evs) :
                  by_token[g].evs[a].tokenDecimal = by_token[g].evs[b].tokenDecimal

C5_Witness ==
    /\ GroupingDone
    /\ \E g, h \in 1..Len(by_token) :
          /\ g # h
          /\ by_token[g].key[1] = by_token[h].key[1]
          /\ by_token[g].key[3] # by_token[h].key[3]

(***************************************************************************)
(* C6: the printed report has the native-currency row first, present even  *)
(* when nothing was received, then exactly one row per distinct key of the *)
(* retained token records, in the order in which the keys are first seen.  *)
(***************************************************************************)
C6_ReportRows ==
    pc = "done" =>
        /\ Len(printed) = 2 + Cardinality(RetainedKeys)
        /\ printed[1] = Header
        /\ printed[2][1] = "ETH"
        /\ printed[2][2] = Balance(SelectSeq(eth_txs, MatchesAddress), WeiDecimals)
        /\ \A key \in RetainedKeys :
              LET HasThisKey(tx) == Triple(tx) = key
              IN  /\ printed[2 + Rank(key)][1] = key[2]
                  /\ printed[2 + Rank(key)][2] =
                        Balance(SelectSeq(Retained, HasThisKey),
                                ParseInt(key[3]).val)

C6_Witness ==
    /\ pc = "done"
    /\ eth_in = <<>>
    /\ Len(printed) = 4
    /\ printed[3][1] # printed[4][1]

C6_WitnessEmpty ==
    /\ pc = "done"
    /\ eth_txs = <<>>
    /\ token_txs = <<>>

(***************************************************************************)
(* C7: two invocations of the aggregation on the same group return the     *)
(* same result, whatever the wall-clock time at which each one runs.       *)
(***************************************************************************)
C7_SameGroupSameResult ==
    (first.made /\ second.made /\ second.events = first.events) =>
        second.out = first.out

(***************************************************************************)
(* C8: for a non-empty group whose timestamps are all at or before now,    *)
(* the returned average age is at least 0.                                 *)
(***************************************************************************)
C8_NonNegativeAge ==
    \A c \in Calls :
        (c.events # <<>> /\ WellFormed(c.events) /\ NotInFuture(c)) =>
            (~c.out.raised /\ c.out.value[1] >= 0)

(***************************************************************************)
(* C9: aggregating the records of a group in another order, at the same    *)
(* now, gives the same total amount and the same average age.  It holds    *)
(* without rounding (SpecAge) and fails in rounded floats (SpecFloat).      *)
(***************************************************************************)
C9_OrderInvariant ==
    (first.made /\ second.made /\ second.now = first.now) =>
        /\ second.out = first.out
        /\ ~first.out.raised =>
              NumEq(Loop(second.events, Len(second.events), second.now).total_amount,
                    Loop(first.events, Len(first.events), first.now).total_amount)

(***************************************************************************)
(* C10: classifying again, for the same address, the records that the      *)
(* classification retained gives the same native group and the same token  *)
(* groups, keys and records.                                               *)
(***************************************************************************)
C10_Idempotent ==
    GroupingDone =>
        /\ Incoming(eth_in, address) = eth_in
        /\ GroupTokens(Flatten(by_token), Len(Flatten(by_token)), address)
              = by_token

C10_Witness ==
    /\ GroupingDone
    /\ eth_in # <<>>
    /\ Len(by_token) = 2
    /\ Flatten(by_token) # Retained
====
